---- MODULE Spec2Model ----
(***************************************************************************)
(* Sector I/O and block allocation of MiniVHD (src/src/minivhd_io.c).      *)
(*                                                                         *)
(* A file is a run of 512-byte sectors ("cells").  A cell is an integer:   *)
(* its low 8 bits are the first byte of the sector, the rest names what    *)
(* follows that byte (0: zeros, 1: the trailing footer record, 2: the      *)
(* footer copy at the start of the file, 3: the sparse header, 4: the      *)
(* sector holding the BAT, 5: bytes that belong to no record).  A sector   *)
(* bitmap keeps its bits in the first byte, most significant bit first,    *)
(* so a block holds at most 8 sectors here.                                *)
(***************************************************************************)
EXTENDS Integers, Sequences, FiniteSets, TLC

VARIABLES img, last, chk

vars == <<img, last, chk>>

(***************************************************************************)
(* Bounds of the model.                                                    *)
(***************************************************************************)
NumBlocks == 2
SectPerBlock == 2
MaxData == 1
MaxArg == 3
FixedTotal == 3
MaxDrift == 0
DiffBlocks == 1
WideSectPerBlock == 3

(***************************************************************************)
(* Program constants.                                                      *)
(***************************************************************************)
MVHD_SECTOR_SIZE == 512
\* 0xffffffff; block_offset entries are 32-bit unsigned and are held here
\* by their residue modulo 2^32 in the signed range.
MVHD_SPARSE_BLK == -1
\* 2^32 / MVHD_SECTOR_SIZE: a 32-bit product block_offset * MVHD_SECTOR_SIZE
\* addresses the sector block_offset modulo this.
U32_SECTORS == 8388608
BAT_ENTRY_SIZE == 4
PAD_SECTORS == 5

MVHD_TYPE_FIXED == 2
MVHD_TYPE_DYNAMIC == 3
MVHD_TYPE_DIFF == 4

Zero == 0
FooterCell == 256 * 1 + 99
HeaderCopyCell == 256 * 2 + 99
SparseHeaderCell == 256 * 3 + 99
BatCell == 256 * 4 + 255
JunkCell == 256 * 5 + 7
\* A buffer slot that no transfer has filled.
Untouched == 256 * 6

Max(a, b) == IF a > b THEN a ELSE b
Min(a, b) == IF a < b THEN a ELSE b

RECURSIVE Pow2(_)
Pow2(n) == IF n = 0 THEN 1 ELSE 2 * Pow2(n - 1)

\* bool mvhd_is_conectix_str(const void* buffer): the record starts with "conectix"
mvhd_is_conectix_str(c) == c = FooterCell \/ c = HeaderCopyCell

\* VHD_TESTBIT(A,k): A[k/8] & (0x80 >> (k%8)), for k < 8
VHD_TESTBIT(A, k) == ((A % 256) \div Pow2(7 - k)) % 2 = 1

\* A variant of VHD_SETBIT that sets the bit after bit k as well.
VHD_SETBIT_pair(A, k) ==
    LET B == IF VHD_TESTBIT(A, k) THEN A ELSE A + Pow2(7 - k)
    IN IF VHD_TESTBIT(B, k + 1) THEN B ELSE B + Pow2(6 - k)

\* VHD_SETBIT(A,k): A[k/8] |= (0x80 >> (k%8)), for k < 8
VHD_SETBIT(A, k) == IF VHD_TESTBIT(A, k) THEN A ELSE A + Pow2(7 - k)

(***************************************************************************)
(* The file: len cells, the last of which holds only tail bytes when       *)
(* tail > 0; dat holds the cells that are not all zeros; bat holds the     *)
(* 4-byte entries stored in the BAT's sector.                              *)
(***************************************************************************)
FileCell(f, i) == IF i \in DOMAIN f.dat THEN f.dat[i] ELSE Zero

FilePut(f, i, c) ==
    LET keep == IF c = Zero THEN DOMAIN f.dat \ {i} ELSE DOMAIN f.dat \cup {i}
    IN [f EXCEPT !.len = Max(f.len, i + 1),
                 !.tail = IF i >= f.len - 1 THEN 0 ELSE f.tail,
                 !.dat = [j \in keep |-> IF j = i THEN c ELSE f.dat[j]]]

\* fseeko64(f, sect * MVHD_SECTOR_SIZE + byte, SEEK_SET)
fseek_set(h, sect, byte) == [h EXCEPT !.pos = sect, !.posb = byte, !.g_drift = 0]

\* fseeko64(f, n * MVHD_SECTOR_SIZE, SEEK_CUR)
fseek_cur(h, n) == [h EXCEPT !.pos = h.pos + n, !.g_drift = h.g_drift + n]

\* fseeko64(f, -MVHD_FOOTER_SIZE, SEEK_END)
fseek_footer(h) ==
    IF h.f.tail = 0 THEN fseek_set(h, h.f.len - 1, 0)
    ELSE fseek_set(h, h.f.len - 2, h.f.tail)

\* fseeko64(f, 0, SEEK_END)
fseek_end(h) ==
    IF h.f.tail = 0 THEN fseek_set(h, h.f.len, 0)
    ELSE fseek_set(h, h.f.len - 1, h.f.tail)

\* Whether fread of one sector at the cursor gets a whole sector.
CanRead(h) ==
    /\ h.pos >= 0
    /\ \/ h.pos + 1 < h.f.len
       \/ h.pos + 1 = h.f.len /\ h.f.tail = 0 /\ h.posb = 0

\* The sector fread yields at the cursor: a read that straddles two cells
\* yields bytes that form no record.
ReadCell(h) == IF h.posb = 0 THEN FileCell(h.f, h.pos) ELSE JunkCell

\* The cursor after fread/fwrite of one sector.
Advance(h) == [h EXCEPT !.pos = h.pos + 1]

\* fwrite(cell, MVHD_SECTOR_SIZE, 1, f) at the cursor
fwrite_sector(h, c) ==
    IF h.posb = 0
    THEN Advance([h EXCEPT !.f = FilePut(h.f, h.pos, c)])
    ELSE Advance([h EXCEPT !.f = FilePut(FilePut(h.f, h.pos, JunkCell), h.pos + 1, JunkCell)])

\* A variant of mvhd_write_empty_sectors that writes no sector.
mvhd_write_no_sectors(h, sector_count) == h

\* static void mvhd_write_empty_sectors(FILE* f, int sector_count)
RECURSIVE mvhd_write_empty_sectors(_, _)
mvhd_write_empty_sectors(h, sector_count) ==
    IF sector_count <= 0 THEN h
    ELSE mvhd_write_empty_sectors(fwrite_sector(h, Zero), sector_count - 1)

\* A variant of mvhd_check_sectors that never clamps.
mvhd_check_sectors_unclamped(offset, num_sectors, total_sectors) ==
    [transfer |-> num_sectors, trunc |-> 0]

\* A variant of mvhd_check_sectors that clamps one sector late.
mvhd_check_sectors_late(offset, num_sectors, total_sectors) ==
    IF (total_sectors - offset) < num_sectors
    THEN [transfer |-> total_sectors - offset + 1,
          trunc |-> num_sectors - (total_sectors - offset + 1)]
    ELSE [transfer |-> num_sectors, trunc |-> 0]

\* static inline void mvhd_check_sectors(offset, num_sectors, total_sectors, ...)
mvhd_check_sectors(offset, num_sectors, total_sectors) ==
    IF (total_sectors - offset) < num_sectors
    THEN [transfer |-> total_sectors - offset,
          trunc |-> num_sectors - (total_sectors - offset)]
    ELSE [transfer |-> num_sectors, trunc |-> 0]

\* The sector a 32-bit byte offset block_offset[blk] * MVHD_SECTOR_SIZE names.
BlockSector(h, blk) == h.block_offset[blk] % U32_SECTORS

\* fread(vhdm->bitmap.curr_bitmap, ...) at the cursor of hs: a read that gets
\* no whole sector leaves the cached bitmap and the cursor as they were.
fread_bitmap(hs) ==
    IF CanRead(hs) THEN Advance([hs EXCEPT !.curr_bitmap = ReadCell(hs)]) ELSE hs

\* static void mvhd_read_sect_bitmap(MVHDMeta* vhdm, int blk)
mvhd_read_sect_bitmap(h, blk) ==
    [(IF h.block_offset[blk] # MVHD_SPARSE_BLK
      THEN fread_bitmap(fseek_set(h, BlockSector(h, blk), 0))
      ELSE [h EXCEPT !.curr_bitmap = Zero])
     EXCEPT !.curr_block = blk]

\* static void mvhd_write_curr_sect_bitmap(MVHDMeta* vhdm)
\* (g_flush keeps, for each seek and write, the cached block, its BAT entry
\* and the sector written)
mvhd_write_curr_sect_bitmap(h) ==
    IF h.curr_block >= 0
    THEN [fwrite_sector(fseek_set(h, BlockSector(h, h.curr_block), 0), h.curr_bitmap)
          EXCEPT !.g_flush = h.g_flush \cup
                     {[blk |-> h.curr_block,
                       off |-> h.block_offset[h.curr_block],
                       at |-> BlockSector(h, h.curr_block)]}]
    ELSE h

\* A variant of mvhd_write_bat_entry that stores the entry in slot 0.
mvhd_write_bat_entry_slot0(h, blk) ==
    LET end == h.bat_offset + BAT_ENTRY_SIZE
    IN [h EXCEPT !.f.bat = [h.f.bat EXCEPT ![0] = h.block_offset[blk]],
                 !.pos = end \div MVHD_SECTOR_SIZE,
                 !.posb = end % MVHD_SECTOR_SIZE,
                 !.g_drift = 0]

\* static void mvhd_write_bat_entry(MVHDMeta* vhdm, int blk)
mvhd_write_bat_entry(h, blk) ==
    LET table_offset == h.bat_offset + blk * BAT_ENTRY_SIZE
        end == table_offset + BAT_ENTRY_SIZE
    IN [h EXCEPT !.f.bat = [h.f.bat EXCEPT ![blk] = h.block_offset[blk]],
                 !.pos = end \div MVHD_SECTOR_SIZE,
                 !.posb = end % MVHD_SECTOR_SIZE,
                 !.g_drift = 0]

\* The footer mvhd_create_block appends: the record at the end of the file
\* when it is a footer, the copy at the start of the file otherwise.
ReadFooter(h) ==
    LET tail_rec == ReadCell(fseek_footer(h))
    IN IF mvhd_is_conectix_str(tail_rec) THEN tail_rec ELSE FileCell(h.f, 0)

\* A variant of SeekFooter that stays on the last record of the file.
SeekFooter_always(h) == fseek_footer(h)

\* The cursor after the footer test: on the footer when there is one, at the
\* end of the file otherwise.
SeekFooter(h) ==
    IF mvhd_is_conectix_str(ReadCell(fseek_footer(h)))
    THEN fseek_footer(h)
    ELSE fseek_end(h)

\* Zero bytes up to the next sector boundary.
PadToSector(h1) ==
    IF h1.posb # 0
    THEN [h1 EXCEPT !.f.tail = 0, !.pos = h1.pos + 1, !.posb = 0]
    ELSE h1

\* The block written at the cursor of h2: bitmap and data sectors, padding,
\* the footer, then the BAT entry.
AppendBlock(h2, footer, blk) ==
    LET h5 == fwrite_sector(
                  mvhd_write_empty_sectors(
                      mvhd_write_empty_sectors(h2, h2.sector_count + h2.sect_per_block),
                      PAD_SECTORS),
                  footer)
    IN mvhd_write_bat_entry(
           [h5 EXCEPT !.block_offset[blk] = h2.pos,
                      !.g_allocs = Append(h2.g_allocs,
                                          [blk |-> blk, off |-> h2.pos,
                                           was |-> h2.block_offset[blk]])],
           blk)

\* What mvhd_create_block can change of a handle: the file, the BAT in
\* memory, the bitmap cache.
Storage(h) ==
    [f |-> h.f, block_offset |-> h.block_offset,
     curr_bitmap |-> h.curr_bitmap, curr_block |-> h.curr_block]

\* The handle h2 that mvhd_create_block(h, blk) leaves, with the call noted
\* in g_frames: the block, the storage before and the storage after.
NoteFrame(h, h2, blk) ==
    [h2 EXCEPT !.g_frames = h.g_frames \cup
                   {[blk |-> blk, pre |-> Storage(h), post |-> Storage(h2)]}]

\* static void mvhd_create_block(MVHDMeta* vhdm, int blk)
mvhd_create_block(h, blk) ==
    NoteFrame(h, AppendBlock(PadToSector(SeekFooter(h)), ReadFooter(h), blk), blk)

\* (int64_t)(block_offset[blk] + bitmap.sector_count + sib): the data sector of sib
DataSector(h, blk, sib) == h.block_offset[blk] + h.sector_count + sib

\* if (blk != prev_blk) { ... } of mvhd_sparse_read
SeekForRead(h, blk, sib, prev_blk) ==
    IF blk # prev_blk
    THEN IF h.curr_block # blk
         THEN fseek_cur(mvhd_read_sect_bitmap(h, blk), sib)
         ELSE fseek_set(h, DataSector(h, blk, sib), 0)
    ELSE h

\* A variant of ReadSector whose hole branch leaves the buffer slot as it was.
ReadSector_nomemset(h1, s, sib, old) ==
    LET bit == VHD_TESTBIT(h1.curr_bitmap, sib)
        got == bit /\ CanRead(h1)
    IN [h |-> [(IF got THEN Advance(h1) ELSE h1)
               EXCEPT !.g_touch = h1.g_touch \cup {s}],
        c |-> IF got THEN ReadCell(h1) ELSE old]

\* A variant of ReadSector that moves the sector from the buffer to the file.
ReadSector_writing(h1, s, sib, old) ==
    LET bit == VHD_TESTBIT(h1.curr_bitmap, sib)
    IN [h |-> [(IF bit THEN fwrite_sector(h1, old) ELSE h1)
               EXCEPT !.g_touch = h1.g_touch \cup {s}],
        c |-> IF bit THEN old ELSE Zero]

\* if (VHD_TESTBIT(...)) fread(...) else memset(...) for sector s, whose
\* buffer slot holds old: the handle and the slot afterwards.
ReadSector(h1, s, sib, old) ==
    LET bit == VHD_TESTBIT(h1.curr_bitmap, sib)
        got == bit /\ CanRead(h1)
    IN [h |-> [(IF got THEN Advance(h1) ELSE h1)
               EXCEPT !.g_touch = h1.g_touch \cup {s}],
        c |-> IF bit THEN (IF got THEN ReadCell(h1) ELSE old) ELSE Zero]

\* The for loop of mvhd_sparse_read, from sector s on.
RECURSIVE SparseReadLoop(_, _, _, _, _, _)
SparseReadLoop(h, s, ls, prev_blk, out, i) ==
    IF s >= ls THEN [h |-> h, out |-> out]
    ELSE
    LET blk == s \div h.sect_per_block
        sib == s % h.sect_per_block
        r == ReadSector(SeekForRead(h, blk, sib, prev_blk), s, sib, out[i])
    IN SparseReadLoop(r.h, s + 1, ls, blk, [out EXCEPT ![i] = r.c], i + 1)

\* int mvhd_sparse_read(MVHDMeta* vhdm, int offset, int num_sectors, void* out_buff)
mvhd_sparse_read(h, offset, num_sectors, out_buff) ==
    LET cs == mvhd_check_sectors(offset, num_sectors, h.total_sectors)
        r == SparseReadLoop(h, offset, offset + cs.transfer, -1, out_buff, 1)
    IN [h |-> r.h, out |-> r.out, ret |-> cs.trunc]

\* fread(out_buff, n * MVHD_SECTOR_SIZE, 1, f): the sectors it gets before the
\* end of the file, into the first slots of the buffer.
RECURSIVE fread_sectors(_, _, _, _)
fread_sectors(h, n, out, i) ==
    IF n <= 0 \/ ~CanRead(h) THEN [h |-> h, out |-> out]
    ELSE fread_sectors(Advance(h), n - 1, [out EXCEPT ![i] = ReadCell(h)], i + 1)

\* fwrite(in_buff, n * MVHD_SECTOR_SIZE, 1, f)
RECURSIVE fwrite_sectors(_, _, _, _)
fwrite_sectors(h, n, buff, i) ==
    IF n <= 0 THEN h
    ELSE fwrite_sectors(fwrite_sector(h, buff[i]), n - 1, buff, i + 1)

\* The sectors a transfer of n sectors at offset covers.
Run(offset, n) == offset .. (offset + n - 1)

\* A variant of mvhd_fixed_read that reads num_sectors, not transfer_sectors.
mvhd_fixed_read_whole(h, offset, num_sectors, out_buff) ==
    LET cs == mvhd_check_sectors(offset, num_sectors, h.total_sectors)
        h1 == fseek_set(h, offset, 0)
        r == fread_sectors(h1, num_sectors, out_buff, 1)
    IN [h |-> [r.h EXCEPT !.g_touch = r.h.g_touch \cup Run(offset, num_sectors)],
        out |-> r.out, ret |-> cs.trunc]

\* int mvhd_fixed_read(MVHDMeta* vhdm, int offset, int num_sectors, void* out_buff)
\* (the callers of the model start no request past the end of the image, so
\* transfer_sectors is never negative)
mvhd_fixed_read(h, offset, num_sectors, out_buff) ==
    LET cs == mvhd_check_sectors(offset, num_sectors, h.total_sectors)
        h1 == fseek_set(h, offset, 0)
        r == fread_sectors(h1, cs.transfer, out_buff, 1)
    IN [h |-> [r.h EXCEPT !.g_touch = r.h.g_touch \cup Run(offset, cs.transfer)],
        out |-> r.out, ret |-> cs.trunc]

\* int mvhd_fixed_write(MVHDMeta* vhdm, int offset, int num_sectors, void* in_buff)
mvhd_fixed_write(h, offset, num_sectors, in_buff) ==
    LET cs == mvhd_check_sectors(offset, num_sectors, h.total_sectors)
        h1 == fseek_set(h, offset, 0)
        h2 == fwrite_sectors(h1, cs.transfer, in_buff, 1)
    IN [h |-> [h2 EXCEPT !.g_touch = h2.g_touch \cup Run(offset, cs.transfer),
                         !.g_wrote = h2.g_wrote \cup Run(offset, cs.transfer)],
        ret |-> cs.trunc]

\* The while loop of mvhd_diff_read for sector s, from image curr on: the
\* images as the walk leaves them and the image it stops at.
RECURSIVE DiffWalk(_, _, _)
DiffWalk(imgs, curr, s) ==
    IF imgs[curr].disk_type = MVHD_TYPE_DIFF
    THEN LET h == imgs[curr]
             blk == s \div h.sect_per_block
             sib == s % h.sect_per_block
             h1 == IF h.curr_block # blk THEN mvhd_read_sect_bitmap(h, blk) ELSE h
         IN IF ~VHD_TESTBIT(h1.curr_bitmap, sib)
            THEN DiffWalk([imgs EXCEPT ![curr] = h1], h.parent, s)
            ELSE [imgs |-> [imgs EXCEPT ![curr] = h1], curr |-> curr]
    ELSE [imgs |-> imgs, curr |-> curr]

\* The read of sector s from the image the walk w stopped at, into a buffer
\* slot that holds old: the images and the slot afterwards.
DiffReadSector(w, s, old) ==
    LET h == w.imgs[w.curr]
        r == IF h.disk_type = MVHD_TYPE_DIFF \/ h.disk_type = MVHD_TYPE_DYNAMIC
             THEN mvhd_sparse_read(h, s, 1, <<old>>)
             ELSE mvhd_fixed_read(h, s, 1, <<old>>)
    IN [imgs |-> [w.imgs EXCEPT ![w.curr] = r.h], c |-> r.out[1]]

\* The for loop of mvhd_diff_read, from sector s on.
RECURSIVE DiffReadLoop(_, _, _, _, _, _)
DiffReadLoop(imgs, id, s, ls, out, i) ==
    IF s >= ls THEN [imgs |-> imgs, out |-> out]
    ELSE
    LET d == DiffReadSector(DiffWalk(imgs, id, s), s, out[i])
    IN DiffReadLoop(d.imgs, id, s + 1, ls, [out EXCEPT ![i] = d.c], i + 1)

\* int mvhd_diff_read(MVHDMeta* vhdm, int offset, int num_sectors, void* out_buff)
mvhd_diff_read(imgs, id, offset, num_sectors, out_buff) ==
    LET cs == mvhd_check_sectors(offset, num_sectors, imgs[id].total_sectors)
        r == DiffReadLoop(imgs, id, offset, offset + cs.transfer, out_buff, 1)
    IN [imgs |-> r.imgs, out |-> r.out, ret |-> cs.trunc]

\* A variant of the sentinel test that takes every block for unallocated.
AlwaysSparseBlock(h, blk) == TRUE

\* if (vhdm->block_offset[blk] == MVHD_SPARSE_BLK)
IsSparseBlock(h, blk) == h.block_offset[blk] = MVHD_SPARSE_BLK

\* The sectors of the cached block whose bit is set in the cached bitmap and
\* not in the bitmap sector of that block in the file, when the cache is
\* about to be pointed at blk and holds another block.
Unflushed(h, blk) ==
    IF h.curr_block >= 0 /\ h.curr_block # blk
    THEN {h.curr_block * h.sect_per_block + k : k \in
            {k \in 0 .. (h.sect_per_block - 1) :
                /\ VHD_TESTBIT(h.curr_bitmap, k)
                /\ \/ h.block_offset[h.curr_block] = MVHD_SPARSE_BLK
                   \/ ~VHD_TESTBIT(FileCell(h.f, h.block_offset[h.curr_block]), k)}}
    ELSE {}

\* mvhd_read_sect_bitmap(vhdm, blk) as mvhd_sparse_diff_write calls it; g_lost
\* keeps the sectors whose set bit the call discards.
RepointForWrite(h, blk) ==
    [mvhd_read_sect_bitmap(h, blk) EXCEPT !.g_lost = h.g_lost \cup Unflushed(h, blk)]

\* if (vhdm->block_offset[blk] == MVHD_SPARSE_BLK) { ... } of mvhd_sparse_diff_write
AllocateIfSparse(h, blk) ==
    IF IsSparseBlock(h, blk)
    THEN mvhd_create_block(RepointForWrite(h, blk), blk)
    ELSE h

\* if (blk != prev_blk) { ... } of mvhd_sparse_diff_write
SeekForWrite(h1, blk, sib, prev_blk) ==
    IF blk # prev_blk
    THEN IF h1.curr_block # blk
         THEN fseek_cur(RepointForWrite(IF prev_blk >= 0
                                        THEN mvhd_write_curr_sect_bitmap(h1)
                                        ELSE h1,
                                        blk),
                        sib)
         ELSE fseek_set(h1, DataSector(h1, blk, sib), 0)
    ELSE h1

\* fwrite(buff, ...); VHD_SETBIT(vhdm->bitmap.curr_bitmap, sib) for sector s
WriteSector(h2, s, sib, c) ==
    LET h3 == fwrite_sector(h2, c)
    IN [h3 EXCEPT !.curr_bitmap = VHD_SETBIT(h3.curr_bitmap, sib),
                  !.g_touch = h3.g_touch \cup {s}]

\* The for loop of mvhd_sparse_diff_write, from sector s on.
RECURSIVE SparseWriteLoop(_, _, _, _, _, _)
SparseWriteLoop(h, s, ls, prev_blk, buff, i) ==
    IF s >= ls THEN h
    ELSE
    LET blk == s \div h.sect_per_block
        sib == s % h.sect_per_block
    IN SparseWriteLoop(
           WriteSector(SeekForWrite(AllocateIfSparse(h, blk), blk, sib, prev_blk),
                       s, sib, buff[i]),
           s + 1, ls, blk, buff, i + 1)

\* The end of mvhd_sparse_diff_write: the flush of the cached bitmap and the
\* return of the truncated count.
FlushAndReturn(h1, trunc) ==
    LET h2 == mvhd_write_curr_sect_bitmap(h1)
    IN [h |-> [h2 EXCEPT !.g_wrote = h2.g_wrote \cup h2.g_touch], ret |-> trunc]

\* int mvhd_sparse_diff_write(MVHDMeta* vhdm, int offset, int num_sectors, void* in_buff)
mvhd_sparse_diff_write(h, offset, num_sectors, in_buff) ==
    LET cs == mvhd_check_sectors(offset, num_sectors, h.total_sectors)
    IN FlushAndReturn(SparseWriteLoop(h, offset, offset + cs.transfer, -1, in_buff, 1),
                      cs.trunc)


(***************************************************************************)
(* Image handles as they are after a successful open of an image that      *)
(* holds no block yet: footer copy, sparse header (two sectors), the BAT   *)
(* sector, the trailing footer.                                            *)
(***************************************************************************)
BatSector == 3

\* Total sectors of the sparse image: the last block is not full.
TotalSectors == NumBlocks * SectPerBlock - 1

\* Total sectors of the images of a differencing chain.
DiffTotal == DiffBlocks * SectPerBlock

EmptyFile(nblocks, end) ==
    [len |-> BatSector + 1 + Len(end),
     tail |-> 0,
     dat |-> [i \in 0 .. (BatSector + Len(end)) |->
                 IF i = 0 THEN HeaderCopyCell
                 ELSE IF i < BatSector THEN SparseHeaderCell
                 ELSE IF i = BatSector THEN BatCell
                 ELSE end[i - BatSector]],
     bat |-> [b \in 0 .. (nblocks - 1) |-> MVHD_SPARSE_BLK]]

\* The handle of a sparse or differencing image of nblocks blocks and total sectors.
SparseHandle(type, parent, nblocks, total, end) ==
    [disk_type |-> type,
     parent |-> parent,
     total_sectors |-> total,
     sect_per_block |-> SectPerBlock,
     sector_count |-> 1,
     bat_offset |-> BatSector * MVHD_SECTOR_SIZE,
     block_offset |-> [b \in 0 .. (nblocks - 1) |-> MVHD_SPARSE_BLK],
     curr_bitmap |-> Zero,
     curr_block |-> -1,
     f |-> EmptyFile(nblocks, end),
     pos |-> 0,
     posb |-> 0,
     g_drift |-> 0,
     g_allocs |-> <<>>,
     g_touch |-> {},
     g_wrote |-> {},
     g_lost |-> {},
     g_flush |-> {},
     g_frames |-> {}]

\* The handle of a fixed image of total sectors: the data, then the footer.
FixedHandle(total) ==
    [disk_type |-> MVHD_TYPE_FIXED,
     parent |-> 0,
     total_sectors |-> total,
     sect_per_block |-> 0,
     sector_count |-> 0,
     bat_offset |-> 0,
     block_offset |-> <<>>,
     curr_bitmap |-> Zero,
     curr_block |-> -1,
     f |-> [len |-> total + 1, tail |-> 0,
            dat |-> [i \in {total} |-> FooterCell], bat |-> <<>>],
     pos |-> 0,
     posb |-> 0,
     g_drift |-> 0,
     g_allocs |-> <<>>,
     g_touch |-> {},
     g_wrote |-> {},
     g_lost |-> {},
     g_flush |-> {},
     g_frames |-> {}]

(***************************************************************************)
(* The record of the last completed call: its arguments, what it returned, *)
(* the buffer it filled (out) or was given (buf), the sectors its loop     *)
(* transferred, the blocks it allocated, the sectors whose set bit it      *)
(* discarded from the bitmap cache (lost), the bitmap flushes it made      *)
(* (flushes), the block allocations it made (frames), and, for a read that *)
(* directly                                                                *)
(* follows a write of the same range, the buffer of that write (wbuf).     *)
(***************************************************************************)
NoOp ==
    [kind |-> "none", id |-> 0, offset |-> 0, count |-> 0, buf |-> <<>>,
     out |-> <<>>, ret |-> 0, sects |-> {}, newblks |-> {}, wbuf |-> <<>>,
     pre |-> <<>>, lost |-> {}, flushes |-> {}, frames |-> {}]

\* The blocks allocated between handle h and the later handle h2.
NewBlocks(h, h2) ==
    {h2.g_allocs[i].blk : i \in (Len(h.g_allocs) + 1) .. Len(h2.g_allocs)}

\* The handle as the call returns it: the per-call history is cleared.
Returned(h) ==
    [h EXCEPT !.g_touch = {}, !.g_lost = {}, !.g_flush = {}, !.g_frames = {}]

TagSpan == Max(TotalSectors, Max(FixedTotal, DiffTotal)) + 1

\* The byte a caller writes to sector s of image id: every sector of every
\* image has MaxData bytes of its own, none of them zero.
Tag(id, s, seed) == 1 + s + TagSpan * (seed + MaxData * (id - 1))

\* The caller's write buffers for count sectors at offset.
Buffers(id, offset, count) ==
    {[i \in 1 .. count |-> Tag(id, offset + i - 1, seed)] : seed \in 0 .. (MaxData - 1)}

FreshBuffer(count) == [i \in 1 .. count |-> Untouched]

Offsets(h) == 0 .. (h.total_sectors + 1)
Counts == 0 .. MaxArg

\* A relative seek in a block that is not allocated moves the cursor from
\* wherever it was, call after call; g_drift is how far the cursor has come
\* by relative seeks since the last absolute one, and the model follows it
\* MaxDrift sectors further than one block's relative seek takes it.
CursorBounded(h) ==
    \/ h.disk_type = MVHD_TYPE_FIXED
    \/ h.g_drift <= h.sect_per_block - 1 + MaxDrift

\* The call kind(id, offset, count) returns ret, leaving the images imgs and
\* the read buffer out; buf is the write buffer it was given and pre the
\* file of a fixed image before the call.
Return(imgs, kind, id, offset, count, buf, out, ret, pre) ==
    /\ \A k \in DOMAIN imgs : CursorBounded(imgs[k])
    /\ img' = [k \in DOMAIN imgs |-> Returned(imgs[k])]
    /\ last' = [kind |-> kind, id |-> id, offset |-> offset, count |-> count,
                buf |-> buf, out |-> out, ret |-> ret,
                sects |-> imgs[id].g_touch,
                newblks |-> UNION {NewBlocks(img[k], imgs[k]) : k \in DOMAIN imgs},
                wbuf |-> IF /\ kind = "sread" /\ last.kind = "swrite"
                            /\ last.id = id /\ last.offset = offset
                            /\ last.count = count
                         THEN last.buf ELSE <<>>,
                pre |-> pre,
                lost |-> imgs[id].g_lost,
                flushes |-> imgs[id].g_flush,
                frames |-> imgs[id].g_frames]
    /\ UNCHANGED chk

InitSparse ==
    /\ img = <<SparseHandle(MVHD_TYPE_DYNAMIC, 0, NumBlocks, TotalSectors, <<FooterCell>>)>>
    /\ last = NoOp
    /\ chk = <<>>

\* A caller writes count sectors at offset to the sparse image id.
SparseWrite(id) ==
    \E offset \in Offsets(img[id]), count \in Counts :
      \E buf \in Buffers(id, offset, count) :
        LET r == mvhd_sparse_diff_write(img[id], offset, count, buf)
        IN Return([img EXCEPT ![id] = r.h], "swrite", id, offset, count,
                  buf, <<>>, r.ret, <<>>)

\* A caller reads count sectors at offset from the sparse image id.
SparseRead(id) ==
    \E offset \in Offsets(img[id]), count \in Counts :
        LET r == mvhd_sparse_read(img[id], offset, count, FreshBuffer(count))
        IN Return([img EXCEPT ![id] = r.h], "sread", id, offset, count,
                  <<>>, r.out, r.ret, <<>>)

NextSparse == SparseWrite(1) \/ SparseRead(1)

Spec == InitSparse /\ [][NextSparse]_vars


(***************************************************************************)
(* A fixed image.                                                          *)
(***************************************************************************)
InitFixed ==
    /\ img = <<FixedHandle(FixedTotal)>>
    /\ last = NoOp
    /\ chk = <<>>

FixedOffsets(h) == 0 .. h.total_sectors

FixedWrite(id) ==
    \E offset \in FixedOffsets(img[id]), count \in Counts :
      \E buf \in Buffers(id, offset, count) :
        LET r == mvhd_fixed_write(img[id], offset, count, buf)
        IN Return([img EXCEPT ![id] = r.h], "fwrite", id, offset, count,
                  buf, <<>>, r.ret, img[id].f)

FixedRead(id) ==
    \E offset \in FixedOffsets(img[id]), count \in Counts :
        LET r == mvhd_fixed_read(img[id], offset, count, FreshBuffer(count))
        IN Return([img EXCEPT ![id] = r.h], "fread", id, offset, count,
                  <<>>, r.out, r.ret, img[id].f)

NextFixed == FixedWrite(1) \/ FixedRead(1)

SpecFixed == InitFixed /\ [][NextFixed]_vars

(***************************************************************************)
(* A differencing chain: image 1 is a differencing image whose parent 2 is *)
(* a differencing image whose parent 3 is a dynamic or a fixed image.      *)
(***************************************************************************)
ChainIds == 1 .. 3

InitDiff ==
    /\ \E root \in {SparseHandle(MVHD_TYPE_DYNAMIC, 0, DiffBlocks, DiffTotal, <<FooterCell>>),
                    FixedHandle(DiffTotal)} :
          img = <<SparseHandle(MVHD_TYPE_DIFF, 2, DiffBlocks, DiffTotal, <<FooterCell>>),
                  SparseHandle(MVHD_TYPE_DIFF, 3, DiffBlocks, DiffTotal, <<FooterCell>>),
                  root>>
    /\ last = NoOp
    /\ chk = <<>>

\* The counts of the requests on the chain: up to the whole image.
DiffCounts == 0 .. Min(MaxArg, DiffTotal)

\* A caller reads count sectors at offset from the differencing image id.
DiffRead(id) ==
    \E offset \in FixedOffsets(img[id]), count \in DiffCounts :
        LET r == mvhd_diff_read(img, id, offset, count, FreshBuffer(count))
        IN Return(r.imgs, "dread", id, offset, count, <<>>, r.out, r.ret, <<>>)

\* A caller writes to image id of the chain with the write function of its
\* type.  An image is written while it is the newest of the chain: once a
\* child of it holds data it is a parent only, opened to resolve reads.
ChainWrite(id) ==
    /\ \A k \in 1 .. (id - 1) : img[k].g_wrote = {}
    /\ \E offset \in FixedOffsets(img[id]), count \in DiffCounts :
        \E buf \in Buffers(id, offset, count) :
          LET fixed == img[id].disk_type = MVHD_TYPE_FIXED
              r == IF fixed
                   THEN mvhd_fixed_write(img[id], offset, count, buf)
                   ELSE mvhd_sparse_diff_write(img[id], offset, count, buf)
          IN Return([img EXCEPT ![id] = r.h], IF fixed THEN "fwrite" ELSE "swrite",
                    id, offset, count, buf, <<>>, r.ret, <<>>)

NextDiff == DiffRead(1) \/ \E id \in ChainIds : ChainWrite(id)

SpecDiff == InitDiff /\ [][NextDiff]_vars

(***************************************************************************)
(* A dynamic image whose blocks hold WideSectPerBlock sectors and whose    *)
(* second block holds one sector of the image, with requests of at most    *)
(* one sector.                                                             *)
(***************************************************************************)
InitWide ==
    /\ img = <<[SparseHandle(MVHD_TYPE_DYNAMIC, 0, NumBlocks,
                             WideSectPerBlock + 1, <<FooterCell>>)
                EXCEPT !.sect_per_block = WideSectPerBlock]>>
    /\ last = NoOp
    /\ chk = <<>>

WideCounts == 0 .. 1

WideWrite(id) ==
    \E offset \in FixedOffsets(img[id]), count \in WideCounts :
      \E buf \in Buffers(id, offset, count) :
        LET r == mvhd_sparse_diff_write(img[id], offset, count, buf)
        IN Return([img EXCEPT ![id] = r.h], "swrite", id, offset, count,
                  buf, <<>>, r.ret, <<>>)

WideRead(id) ==
    \E offset \in FixedOffsets(img[id]), count \in WideCounts :
        LET r == mvhd_sparse_read(img[id], offset, count, FreshBuffer(count))
        IN Return([img EXCEPT ![id] = r.h], "sread", id, offset, count,
                  <<>>, r.out, r.ret, <<>>)

NextWide == WideWrite(1) \/ WideRead(1)

SpecWide == InitWide /\ [][NextWide]_vars

(***************************************************************************)
(* The bounds checker on its own.                                          *)
(***************************************************************************)
CheckArgs == (0 - 1) .. (MaxArg + 1)

InitCheck ==
    /\ img = <<>>
    /\ last = NoOp
    /\ \E offset \in CheckArgs, count \in CheckArgs, total \in CheckArgs :
          chk = [offset |-> offset, count |-> count, total |-> total,
                 done |-> FALSE, transfer |-> 0, trunc |-> 0]

CheckSectors ==
    /\ ~chk.done
    /\ LET cs == mvhd_check_sectors(chk.offset, chk.count, chk.total)
       IN chk' = [chk EXCEPT !.done = TRUE, !.transfer = cs.transfer,
                             !.trunc = cs.trunc]
    /\ UNCHANGED <<img, last>>

NextCheck == CheckSectors

SpecCheck == InitCheck /\ [][NextCheck]_vars

(***************************************************************************)
(* What the file of an image says about a sector, by the format: the bit   *)
(* of the sector in the bitmap stored at the block's BAT offset, and the   *)
(* sector's slot in the data region that follows the bitmap.               *)
(***************************************************************************)
BlkOf(h, s) == s \div h.sect_per_block
SibOf(h, s) == s % h.sect_per_block

DiskBit(h, s) ==
    /\ h.block_offset[BlkOf(h, s)] # MVHD_SPARSE_BLK
    /\ VHD_TESTBIT(FileCell(h.f, h.block_offset[BlkOf(h, s)]), SibOf(h, s))

DiskSlot(h, s) ==
    FileCell(h.f, h.block_offset[BlkOf(h, s)] + h.sector_count + SibOf(h, s))

SectorView(h, s) == IF DiskBit(h, s) THEN DiskSlot(h, s) ELSE Zero

\* The sectors a request (offset, count) may transfer on an image of total sectors.
Clamped(offset, count, total) ==
    offset .. (offset + Min(count, total - offset) - 1)

LastImg == img[last.id]

\* C1: a read that directly follows a write of the same in-capacity range of
\* a sparse image returns the written bytes, sector by sector.
C1_RoundTrip ==
    (/\ last.kind = "sread" /\ last.wbuf # <<>>
     /\ last.offset + last.count <= LastImg.total_sectors)
    => last.out = last.wbuf

\* C2: a sparse read returns, for each sector of the range, the sector's own
\* data slot when its bitmap bit is set and a zero-filled sector otherwise.
C2_PerSector ==
    last.kind = "sread" =>
        \A s \in last.sects : last.out[s - last.offset + 1] = SectorView(LastImg, s)

\* C4: the on-disk bitmap has the bit of every sector that a completed write
\* has written.
C4_BitmapsReflectWrites ==
    \A id \in DOMAIN img :
        img[id].disk_type # MVHD_TYPE_FIXED =>
            \A s \in img[id].g_wrote : DiskBit(img[id], s)

\* C5: the file of a sparse or differencing image ends with its footer after
\* every completed call.
C5_TrailingFooter ==
    \A id \in DOMAIN img :
        img[id].disk_type # MVHD_TYPE_FIXED =>
            /\ img[id].f.tail = 0
            /\ FileCell(img[id].f, img[id].f.len - 1) = FooterCell

\* The region [offset, offset + bitmap sectors + sectors per block) of an allocation.
Region(h, a) == a.off .. (a.off + h.sector_count + h.sect_per_block - 1)

\* C6: a BAT entry, once set, keeps its offset; every newly allocated block
\* gets an offset greater than every offset allocated before it; the regions
\* of any two allocated blocks are disjoint.
C6_BatEntries ==
    \A id \in DOMAIN img :
        LET h == img[id]
            n == Len(h.g_allocs)
        IN h.disk_type # MVHD_TYPE_FIXED =>
            /\ \A i \in 1 .. n : h.block_offset[h.g_allocs[i].blk] = h.g_allocs[i].off
            /\ \A i \in 1 .. n : \A j \in (i + 1) .. n :
                  /\ h.g_allocs[i].off < h.g_allocs[j].off
                  /\ Region(h, h.g_allocs[i]) \cap Region(h, h.g_allocs[j]) = {}

C6_Witness ==
    /\ Len(img[1].g_allocs) = NumBlocks
    /\ last.kind = "swrite" /\ last.sects # {} /\ last.newblks = {}

\* C7: the allocator runs for a block only while the block's BAT entry is the
\* sentinel and leaves it set, so it runs at most once per block; reads
\* never run it.
C7_AllocOnce ==
    /\ \A id \in DOMAIN img :
        LET h == img[id]
            n == Len(h.g_allocs)
        IN h.disk_type # MVHD_TYPE_FIXED =>
            /\ \A i \in 1 .. n :
                  /\ h.g_allocs[i].was = MVHD_SPARSE_BLK
                  /\ h.block_offset[h.g_allocs[i].blk] # MVHD_SPARSE_BLK
            /\ \A i \in 1 .. n : \A j \in (i + 1) .. n :
                  h.g_allocs[i].blk # h.g_allocs[j].blk
    /\ last.kind \in {"sread", "fread", "dread"} => last.newblks = {}

C7_Witness ==
    /\ last.kind = "swrite" /\ last.newblks = {}
    /\ \E s \in last.sects : s \in {0, 1}
    /\ Len(img[1].g_allocs) >= 1

\* C10: a sparse read or write at offset <= total transfers exactly the
\* sectors of [offset, min(offset + count, total)), allocates blocks for
\* those sectors only, and returns count minus the number transferred.
C10_RangeOverrun ==
    (last.kind \in {"sread", "swrite"} /\ last.offset <= LastImg.total_sectors) =>
        LET range == Clamped(last.offset, last.count, LastImg.total_sectors)
        IN /\ last.sects = range
           /\ \A s \in last.sects : s < LastImg.total_sectors
           /\ \A b \in last.newblks : \E s \in range : BlkOf(LastImg, s) = b
           /\ last.ret = last.count - Cardinality(range)
           /\ \A s \in LastImg.g_wrote : s < LastImg.total_sectors
           /\ last.kind = "sread" =>
                 \A i \in 1 .. last.count :
                     (last.offset + i - 1) \notin range => last.out[i] = Untouched

C10_Witness ==
    /\ last.kind = "swrite" /\ last.ret > 0
    /\ last.sects # {} /\ last.newblks # {}


\* What the chain from image id up holds for sector s: the slot of the
\* nearest image whose bitmap has the sector's bit, the flat sector of a
\* fixed root, zeros when no image of a chain with a sparse root has the bit.
RECURSIVE Resolve(_, _, _)
Resolve(imgs, id, s) ==
    LET h == imgs[id]
    IN IF h.disk_type = MVHD_TYPE_FIXED THEN FileCell(h.f, s)
       ELSE IF DiskBit(h, s) THEN DiskSlot(h, s)
       ELSE IF h.disk_type = MVHD_TYPE_DIFF THEN Resolve(imgs, h.parent, s)
       ELSE Zero

\* C3: a differencing read returns, for every sector of the clamped range,
\* what the chain holds for that sector, whatever the depth at which the
\* sector before it resolved.
C3_ChainResolution ==
    last.kind = "dread" =>
        \A s \in Clamped(last.offset, last.count, LastImg.total_sectors) :
            last.out[s - last.offset + 1] = Resolve(img, last.id, s)

\* C8: transfer + truncated = count; and when offset <= total, transfer is at
\* most total - offset and truncated is 0 exactly when offset + count <= total.
C8_BoundsChecker ==
    chk.done =>
        /\ chk.transfer + chk.trunc = chk.count
        /\ chk.offset <= chk.total =>
              /\ chk.transfer <= chk.total - chk.offset
              /\ (chk.trunc = 0) <=> (chk.offset + chk.count <= chk.total)

C8_Witness ==
    /\ chk.done /\ chk.offset <= chk.total
    /\ chk.trunc > 0 /\ chk.transfer > 0

\* C9: a fixed read or write at offset <= total moves exactly
\* min(count, total - offset) sectors between the first slots of the buffer
\* and the file from sector offset on, leaves the other slots (read) and the
\* other sectors of the file, the footer among them (write), as they were,
\* and returns count minus the sectors moved.
C9_FixedShortTransfer ==
    (last.kind \in {"fread", "fwrite"} /\ last.offset <= LastImg.total_sectors) =>
        LET n == Min(last.count, LastImg.total_sectors - last.offset)
            f == LastImg.f
        IN /\ last.ret = last.count - n
           /\ last.sects = Run(last.offset, n)
           /\ f.len = last.pre.len
           /\ FileCell(f, LastImg.total_sectors) = FooterCell
           /\ last.kind = "fread" =>
                 /\ f = last.pre
                 /\ \A i \in 1 .. last.count :
                       last.out[i] = IF i <= n
                                     THEN FileCell(last.pre, last.offset + i - 1)
                                     ELSE Untouched
           /\ last.kind = "fwrite" =>
                 \A j \in 0 .. (f.len - 1) :
                     FileCell(f, j) = IF j \in Run(last.offset, n)
                                      THEN last.buf[j - last.offset + 1]
                                      ELSE FileCell(last.pre, j)

C9_Witness ==
    /\ last.kind = "fread" /\ last.ret > 0
    /\ \E i \in 1 .. last.count : last.out[i] \notin {Zero, Untouched}
    /\ \E i \in 1 .. last.count : last.out[i] = Untouched

C12_FlushBeforeRepoint ==
    last.kind = "swrite" => last.lost = {}

\* C13: every seek and write of mvhd_write_curr_sect_bitmap is made for a
\* cached block whose BAT entry is not the sentinel, and lands on the bitmap
\* sector of that block.
C13_FlushAllocatedOnly ==
    \A fl \in last.flushes :
        /\ fl.off # MVHD_SPARSE_BLK
        /\ fl.at = fl.off

\* C14: after every completed call, the bitmap cache of an image that caches
\* a block equals the bitmap sector of that block in the file when the block
\* is allocated, and is all zeros when it is not.
C14_CacheCoherence ==
    \A id \in DOMAIN img :
        LET h == img[id]
        IN (h.disk_type # MVHD_TYPE_FIXED /\ h.curr_block >= 0) =>
              h.curr_bitmap = IF IsSparseBlock(h, h.curr_block)
                              THEN Zero
                              ELSE FileCell(h.f, h.block_offset[h.curr_block])

\* Where mvhd_create_block starts to write in file f: at the trailing footer
\* when the file ends with one, at the end of the file otherwise.
AllocStart(f) ==
    IF mvhd_is_conectix_str(FileCell(f, f.len - 1)) THEN f.len - 1 ELSE f.len

\* The sectors of a block placed at start: bitmap, data, padding.
AllocZeros(h, start) == start .. (start + h.sector_count + h.sect_per_block + PAD_SECTORS - 1)

\* C15: an allocation of block b leaves the file below the old footer (or
\* the old end of file) as it was, the regions of the blocks allocated
\* before among it; writes zeros for the bitmap, the data and 5 padding
\* sectors, then the footer; sets BAT slot b in memory and in the file and
\* no other slot; and leaves the bitmap cache as it was.
C15_AllocationFrame ==
    \A fr \in last.frames :
        LET h == LastImg
            start == AllocStart(fr.pre.f)
            zeros == AllocZeros(h, start)
        IN /\ \A i \in DOMAIN fr.pre.f.dat \cup DOMAIN fr.post.f.dat :
                 i < start => FileCell(fr.post.f, i) = FileCell(fr.pre.f, i)
           /\ \A b \in DOMAIN fr.pre.block_offset :
                 fr.pre.block_offset[b] # MVHD_SPARSE_BLK =>
                     \A i \in Region(h, [off |-> fr.pre.block_offset[b]]) :
                         /\ i < start
                         /\ FileCell(fr.post.f, i) = FileCell(fr.pre.f, i)
           /\ \A i \in zeros : FileCell(fr.post.f, i) = Zero
           /\ mvhd_is_conectix_str(FileCell(fr.post.f, start + Cardinality(zeros)))
           /\ fr.post.f.len = start + Cardinality(zeros) + 1
           /\ fr.post.f.tail = 0
           /\ fr.post.block_offset = [fr.pre.block_offset EXCEPT ![fr.blk] = start]
           /\ fr.post.f.bat = [fr.pre.f.bat EXCEPT ![fr.blk] = start]
           /\ fr.post.curr_bitmap = fr.pre.curr_bitmap
           /\ fr.post.curr_block = fr.pre.curr_block

C15_Witness ==
    /\ last.kind = "swrite"
    /\ \E fr \in last.frames :
          /\ fr.blk = 1
          /\ fr.pre.block_offset[0] # MVHD_SPARSE_BLK
          /\ \E i \in Region(LastImg, [off |-> fr.pre.block_offset[0]]) :
                FileCell(fr.pre.f, i) # Zero

\* The 4-byte big-endian value at bat_offset + b * 4 of the file: the entry
\* mvhd_write_bat_entry stored while the sector is the BAT's; the bytes of
\* the sector that replaced it otherwise (a first byte followed by zeros).
DiskBat(h, b) ==
    LET c == FileCell(h.f, h.bat_offset \div MVHD_SECTOR_SIZE)
    IN IF c = BatCell THEN h.f.bat[b]
       ELSE IF b = 0 THEN (c % 256) * Pow2(24) ELSE Zero

\* C16: after every completed call the BAT entry of every block in the file
\* equals block_offset of the block in memory; and no read changes an entry.
C16_BatAgrees ==
    \A id \in DOMAIN img :
        img[id].disk_type # MVHD_TYPE_FIXED =>
            \A b \in DOMAIN img[id].block_offset :
                DiskBat(img[id], b) = img[id].block_offset[b]

\* An allocation that found no footer at the end of the file.
Anomalous(fr) == ~mvhd_is_conectix_str(FileCell(fr.pre.f, fr.pre.f.len - 1))

\* C17: an allocation that finds no footer at the end of the file places the
\* block at the old end of the file and changes no sector below it, ends the
\* file with the record found at the start of the file, sets the BAT entry
\* in memory and in the file, and the write returns its truncated count as
\* it does otherwise.
C17_FooterAnomaly ==
    \A fr \in last.frames :
        Anomalous(fr) =>
            LET old == fr.pre.f.len
            IN /\ \A i \in DOMAIN fr.pre.f.dat \cup DOMAIN fr.post.f.dat :
                     i < old => FileCell(fr.post.f, i) = FileCell(fr.pre.f, i)
               /\ fr.post.block_offset[fr.blk] = old
               /\ fr.post.f.bat[fr.blk] = old
               /\ fr.post.f.len > old
               /\ FileCell(fr.post.f, fr.post.f.len - 1) = FileCell(fr.pre.f, 0)
               /\ last.kind = "swrite"
               /\ last.ret = last.count
                             - Cardinality(Clamped(last.offset, last.count,
                                                   LastImg.total_sectors))

C17_Witness ==
    /\ last.kind = "swrite" /\ last.ret > 0
    /\ \E fr \in last.frames : Anomalous(fr)

\* The handle h with the bitmap cache and the file cursor of handle g.
WithCacheAndCursor(h, g) ==
    [h EXCEPT !.curr_bitmap = g.curr_bitmap, !.curr_block = g.curr_block,
              !.pos = g.pos, !.posb = g.posb, !.g_drift = g.g_drift]

\* C18: a read (fixed, sparse or differencing) changes, of the image it is
\* called on and of every image of its parent chain, nothing but the bitmap
\* cache and the file cursor: file and in-memory BAT stay as they were.
C18_ReadsKeepStorage ==
    [][last'.kind \in {"sread", "fread", "dread"} =>
          /\ DOMAIN img' = DOMAIN img
          /\ \A id \in DOMAIN img :
                /\ img'[id].f = img[id].f
                /\ img'[id].block_offset = img[id].block_offset
                /\ WithCacheAndCursor(img'[id], img[id]) = img[id]]_vars

C18_Witness ==
    /\ last.kind = "dread"
    /\ \E i \in 1 .. last.count : last.out[i] \notin {Zero, Untouched}
    /\ img[2].curr_block >= 0
    /\ img[3].disk_type = MVHD_TYPE_DYNAMIC /\ img[3].curr_block >= 0
    /\ img[3].g_wrote # {}

\* What a differencing read of the one sector s of image id returns.
ReadOne(imgs, id, s) == mvhd_diff_read(imgs, id, s, 1, FreshBuffer(1)).out[1]

C20_ClampedInRange ==
    (chk.done /\ chk.offset >= 0 /\ chk.count >= 0 /\ chk.total >= 0) =>
        /\ 0 <= chk.transfer /\ chk.transfer <= chk.count
        /\ 0 <= chk.trunc /\ chk.trunc <= chk.count
        /\ chk.trunc > 0 => (0 <= chk.transfer /\ chk.transfer < chk.count)

====
